---- MODULE Spec2Model ----
(***************************************************************************)
(* A model of the cdips-pipeline image-subtraction photometry driver       *)
(* (imagesubphot.py) and of the light-curve utilities (lcutils.py).        *)
(*                                                                         *)
(* Three parts share the module:                                           *)
(*   - the reference-frame selectors select_astromref_frame and            *)
(*     select_photref_frames, as operators over the metric tables the      *)
(*     functions collect, driven by SpecAstrom, SpecScenario and           *)
(*     SpecFallback (single pick) and by SpecPhotref and SpecCache (quota  *)
(*     pick, without and with the snapshot file);                          *)
(*   - the pool-based stage functions and their workers, driven by         *)
(*     SpecStage, and the batching of pool.map, driven by SpecPool;        *)
(*   - the construction of the stages' task lists from the files on disk.  *)
(*                                                                         *)
(* Python indexes arrays from 0, TLA+ sequences from 1: position i of a    *)
(* sequence here is numpy index i-1.  np.intersect1d returns its result    *)
(* sorted by value, so ascending positions here are ascending indices      *)
(* there.                                                                  *)
(***************************************************************************)
EXTENDS Integers, Sequences, FiniteSets, TLC

VARIABLES
    \* ---- selectors ----
    fitslist,      \* frames found by glob, in glob order: a sequence of frame records
    ntop,          \* length each ranking of select_astromref_frame is cut to
    sortTies,      \* order np.argsort leaves equal keys in: "stable" or "reversed"
    HAVEBINPHOT,   \* whether the binary fiphot reader was importable
    astromref,     \* outcome of select_astromref_frame, or AstromPending
    minframes,     \* the minframes argument of select_photref_frames
    photrefs,      \* outcome of select_photref_frames, or PhotPending
    pkl,           \* the snapshot file TM-imagesub-photref.pkl of the directory
    forceinfo,     \* the forcecollectinfo argument of select_photref_frames
    \* ---- stage runner ----
    disk,          \* per frame: the derived files of the frame that exist
    call,          \* the stage call in progress: its kind, arguments and status
    tasks,         \* the task list of the call: a sequence of frames
    taskst,        \* per task: "queued", "running", "done" or "raised"
    results,       \* per task: what its worker returned
    workers,       \* per pool worker: the task it runs and how many it has finished
    retval,        \* what the stage call returned
    ncalls         \* how many stage calls the driving script has made

vars == <<fitslist, ntop, sortTies, HAVEBINPHOT, astromref, minframes, photrefs,
          pkl, forceinfo, disk, call, tasks, taskst, results, workers, retval, ncalls>>

selvars == <<fitslist, ntop, sortTies, HAVEBINPHOT, astromref, minframes, photrefs,
             pkl, forceinfo>>

stagevars == <<disk, call, tasks, taskst, results, workers, retval, ncalls>>

----------------------------------------------------------------------------
(* Bounds of the model. *)

\* most frames the glob of select_astromref_frame returns
MaxAstromFrames == 3

\* the scaled-down stand-in for the ranking cut of select_astromref_frame
ScaledTop == 1

\* most frames the glob of select_photref_frames returns
MaxPhotFrames == 4

\* largest minframes argument
MaxMinFrames == 2

----------------------------------------------------------------------------
(* Values. *)

\* np.nan.  np.argsort puts NaN after every number, which is where this
\* value sorts; every comparison with it is false (see Lt).
NaN == 1000

\* Python's None where a frame (a position of fitslist) is expected
NoFrame == 0

\* Python's None where a string is expected
None == "None"

\* a < b on floats: false when either side is NaN
Lt(a, b) == a # NaN /\ b # NaN /\ a < b

\* np.fabs
fabs(x) == IF x = NaN THEN NaN ELSE IF x < 0 THEN 0 - x ELSE x

Min(a, b) == IF a <= b THEN a ELSE b

Range(s) == {s[i] : i \in DOMAIN s}

----------------------------------------------------------------------------
(* numpy helpers *)

\* whether position i comes before position j in np.argsort(v)
Before(v, i, j, ties) ==
    \/ v[i] < v[j]
    \/ v[i] = v[j] /\ (IF ties = "stable" THEN i < j ELSE i > j)

\* np.argsort(v): the positions of v in ascending order of value.  The default
\* sort is not stable; ties says which way equal keys come out.
argsort(v, ties) ==
    LET rank == [i \in 1..Len(v) |->
                    Cardinality({j \in 1..Len(v) : Before(v, j, i, ties)})]
    IN  [k \in 1..Len(v) |-> CHOOSE i \in 1..Len(v) : rank[i] = k - 1]

\* s[::-1]
reversed(s) == [k \in 1..Len(s) |-> s[Len(s) + 1 - k]]

\* s[:n]
head(s, n) == SubSeq(s, 1, Min(n, Len(s)))

\* the elements of a finite set of integers in ascending order
SortedSeq(S) ==
    LET rank == [x \in S |-> Cardinality({y \in S : y < x})]
    IN  [k \in 1..Cardinality(S) |-> CHOOSE x \in S : rank[x] = k - 1]

\* np.intersect1d(a, b, assume_unique=True): the common values, sorted ascending
intersect1d(a, b) == SortedSeq(Range(a) \cap Range(b))

\* a[idx] for a sequence of positions
take(a, idx) == [k \in 1..Len(idx) |-> a[idx[k]]]

\* a[mask] for a boolean mask: the positions where mask holds, in order
maskind(mask) == SortedSeq({i \in 1..Len(mask) : mask[i]})

----------------------------------------------------------------------------
(* select_astromref_frame *)

\* the value ASTROMREF_TOP of the literal cut [:200]
ASTROMREF_TOP == 200

\* A frame as select_astromref_frame sees it: the medians it would read from
\* the frame's source list (S, D, B), the number of good detections in its
\* photometry (N), whether the photometry file is binary (bin) and whether
\* both companion files exist (comp).
AstromFrame(s, d, b, n, bin, comp) ==
    [S |-> s, D |-> d, B |-> b, N |-> n, bin |-> bin, comp |-> comp]

AstromProfiles ==
    { AstromFrame(2,  0, 1, 2, FALSE, TRUE),    \* good on every count
      AstromFrame(1,  1, 2, 1, FALSE, TRUE),    \* poor on every count
      AstromFrame(2,  0, 2, 2, FALSE, TRUE),    \* bright sky only
      AstromFrame(1, -1, 1, 1, FALSE, TRUE),    \* dark sky only
      AstromFrame(2,  0, 2, 1, FALSE, TRUE),    \* sharp and round only
      AstromFrame(1,  1, 1, 2, FALSE, TRUE),    \* blurred and elongated
      AstromFrame(2, -1, 1, 2, FALSE, TRUE),    \* sharp but elongated
      AstromFrame(1,  0, 1, 2, FALSE, TRUE),    \* round but blurred
      AstromFrame(2,  0, 1, 2, TRUE,  TRUE),    \* binary photometry file
      AstromFrame(2,  0, 1, 2, FALSE, FALSE) }  \* a companion file is missing

\* lines 288-307: the positions of fitslist whose photometry and source list
\* both exist, in glob order
goodframes(fl) == SortedSeq({i \in 1..Len(fl) : fl[i].comp})

\* lines 321-379: the frames whose metrics are appended.  A binary photometry
\* file is skipped when no reader is present; nothing is appended for it.
measured(fl, havebin) ==
    SortedSeq({i \in 1..Len(fl) : fl[i].comp /\ (fl[i].bin => havebin)})

median_sval(fl, havebin) ==
    LET m == measured(fl, havebin) IN [k \in 1..Len(m) |-> fl[m[k]].S]

median_dval(fl, havebin) ==
    LET m == measured(fl, havebin) IN [k \in 1..Len(m) |-> fl[m[k]].D]

median_background(fl, havebin) ==
    LET m == measured(fl, havebin) IN [k \in 1..Len(m) |-> fl[m[k]].B]

good_detections(fl, havebin) ==
    LET m == measured(fl, havebin) IN [k \in 1..Len(m) |-> fl[m[k]].N]

\* lines 391-407: the four rankings, each cut to its first top entries
median_sval_ind(fl, havebin, top, ties) ==
    head(reversed(argsort(median_sval(fl, havebin), ties)), top)

median_dval_ind(fl, havebin, top, ties) ==
    LET d == median_dval(fl, havebin)
    IN  head(argsort([k \in 1..Len(d) |-> fabs(d[k])], ties), top)

median_background_ind(fl, havebin, top, ties) ==
    head(argsort(median_background(fl, havebin), ties), top)

good_detections_ind(fl, havebin, top, ties) ==
    head(reversed(argsort(good_detections(fl, havebin), ties)), top)

\* lines 412-427: the intersections
sd_ind(fl, havebin, top, ties) ==
    intersect1d(median_sval_ind(fl, havebin, top, ties),
                median_dval_ind(fl, havebin, top, ties))

best_frame_ind(fl, havebin, top, ties) ==
    intersect1d(sd_ind(fl, havebin, top, ties),
                intersect1d(median_background_ind(fl, havebin, top, ties),
                            good_detections_ind(fl, havebin, top, ties)))

sdndet_ind(fl, havebin, top, ties) ==
    intersect1d(sd_ind(fl, havebin, top, ties),
                good_detections_ind(fl, havebin, top, ties))

\* select_astromref_frame has not run
AstromPending == [frame |-> NoFrame, level |-> "pending"]

\* select_astromref_frame taking the last element of each candidate array
\* instead of the first
select_astromref_frame_last(fl, havebin, top, ties) ==
    LET gf   == goodframes(fl)
        best == best_frame_ind(fl, havebin, top, ties)
        sdn  == sdndet_ind(fl, havebin, top, ties)
        sd   == sd_ind(fl, havebin, top, ties)
        s    == median_sval_ind(fl, havebin, top, ties)
    IN  IF Len(best) > 0 THEN [frame |-> gf[best[Len(best)]], level |-> "all"]
        ELSE IF Len(sdn) > 0 THEN [frame |-> gf[sdn[Len(sdn)]], level |-> "sdndet"]
        ELSE IF Len(sd) > 0 THEN [frame |-> gf[sd[Len(sd)]], level |-> "sd"]
        ELSE IF Len(s) > 0 THEN [frame |-> gf[s[Len(s)]], level |-> "s"]
        ELSE [frame |-> NoFrame, level |-> "none"]

\* select_astromref_frame falling back to the first frame that has its
\* companions when no ranking has an entry
select_astromref_frame_firstgood(fl, havebin, top, ties) ==
    LET gf == goodframes(fl)
        s  == median_sval_ind(fl, havebin, top, ties)
    IN  IF Len(s) > 0 THEN [frame |-> gf[s[1]], level |-> "s"]
        ELSE IF Len(gf) > 0 THEN [frame |-> gf[1], level |-> "s"]
        ELSE [frame |-> NoFrame, level |-> "none"]

\* lines 429-483: the branch taken and the frame returned.  frame is a
\* position of fitslist, or NoFrame for the bare return of line 483.
select_astromref_frame(fl, havebin, top, ties) ==
    LET gf   == goodframes(fl)
        best == best_frame_ind(fl, havebin, top, ties)
        sdn  == sdndet_ind(fl, havebin, top, ties)
        sd   == sd_ind(fl, havebin, top, ties)
        s    == median_sval_ind(fl, havebin, top, ties)
    IN  IF Len(best) > 0 THEN [frame |-> gf[best[1]], level |-> "all"]
        ELSE IF Len(sdn) > 0 THEN [frame |-> gf[sdn[1]], level |-> "sdndet"]
        ELSE IF Len(sd) > 0 THEN [frame |-> gf[sd[1]], level |-> "sd"]
        ELSE IF Len(s) > 0 THEN [frame |-> gf[s[1]], level |-> "s"]
        ELSE [frame |-> NoFrame, level |-> "none"]

----------------------------------------------------------------------------
(* select_photref_frames *)

\* the defaults of the gate arguments
maxhourangle == 3

maxmoonphase == 25

maxmoonelev == -10

maxzenithdist == 30

\* A frame as select_photref_frames sees it: the header keywords HA, Z, MOONPH
\* and MOONELEV (NaN when the keyword is missing), the number of good
\* detections (N), the median magnitude error (E), the magnitude MAD (M) and
\* the median background (B), whether the photometry file is binary (bin) and
\* whether both companion files exist (comp).
PhotFrame(ha, z, ph, el, n, e, m, b) ==
    [HA |-> ha, Z |-> z, MOONPH |-> ph, MOONELEV |-> el,
     N |-> n, E |-> e, M |-> m, B |-> b, bin |-> FALSE, comp |-> TRUE]

\* the same frame with its photometry written by fiphot --binary-output
BinaryPhot(f) == [f EXCEPT !.bin = TRUE]

PhotProfiles ==
    { PhotFrame(0, 10, 10, -20, 2, 1, 1, 1),     \* good on every count
      PhotFrame(1, 10, 10, -20, 2, 2, 1, 2),     \* many stars, small scatter
      PhotFrame(-1, 20, 10, -20, 1, 1, 2, 1),    \* dark sky, small errors
      PhotFrame(0, 10, 50, -20, 2, 1, 2, 1),     \* moon bright but down; large scatter
      PhotFrame(0, 10, 10, 20, 2, 1, 1, 2),      \* moon up but thin; bright sky
      PhotFrame(5, 10, 10, -20, 2, 1, 1, 1),     \* hour angle too large
      PhotFrame(0, 10, NaN, -20, 2, 1, 1, 1) }   \* no MOONPH keyword; moon down

\* no snapshot file
NoPkl == [exists |-> FALSE, frames |-> <<>>, rows |-> <<>>]

\* lines 860-1002: the info dictionary collected from the frames with both
\* companions: 'frames' is goodframes, their positions in the glob; the metric
\* arrays (rows) get an entry for each frame the loop does not skip.  A binary
\* photometry file is skipped by the 'continue' of line 901 when no reader is
\* present: nothing is appended for it, and it stays in goodframes.
collectinfo(fl, havebin) ==
    [exists |-> TRUE,
     frames |-> goodframes(fl),
     rows   |-> take(fl, measured(fl, havebin))]

\* infodict collected afresh on every call, whatever snapshot exists
infodict_recollect(fl, snapshot, forcecollectinfo, havebin) == collectinfo(fl, havebin)

\* lines 855-1018: collected afresh (and written) when the snapshot is absent
\* or forcecollectinfo is set, loaded from the snapshot otherwise
infodict(fl, snapshot, forcecollectinfo, havebin) ==
    IF ~snapshot.exists \/ forcecollectinfo THEN collectinfo(fl, havebin) ELSE snapshot

\* lines 1024-1036
haind(info) ==
    [i \in 1..Len(info.rows) |-> Lt(fabs(info.rows[i].HA), maxhourangle)]

moonind(info) ==
    [i \in 1..Len(info.rows) |->
        \/ Lt(fabs(info.rows[i].MOONPH), maxmoonphase)
        \/ Lt(info.rows[i].MOONELEV, maxmoonelev)]

zenithind(info) ==
    [i \in 1..Len(info.rows) |-> Lt(info.rows[i].Z, maxzenithdist)]

selectind(info) ==
    LET ha == haind(info)
        moon == moonind(info)
        zenith == zenithind(info)
    IN  [i \in 1..Len(info.rows) |-> ha[i] /\ moon[i] /\ zenith[i]]

\* lines 1038-1043: the gated pool: its frames and their metric rows
selected_frames(info) == take(info.frames, maskind(selectind(info)))

selected_rows(info) == take(info.rows, maskind(selectind(info)))

selected_ngoodobj(sel) == [k \in 1..Len(sel) |-> sel[k].N]

selected_medmagerr(sel) == [k \in 1..Len(sel) |-> sel[k].E]

selected_magerrmad(sel) == [k \in 1..Len(sel) |-> sel[k].M]

selected_medsrcbkg(sel) == [k \in 1..Len(sel) |-> sel[k].B]

\* lines 1053-1056: the four rankings of the gated rows sel, each cut to
\* 2*minframes entries
sorted_ngoodobj_ind(sel, mf, ties) ==
    head(reversed(argsort(selected_ngoodobj(sel), ties)), 2 * mf)

sorted_medmagerr_ind(sel, mf, ties) ==
    head(argsort(selected_medmagerr(sel), ties), 2 * mf)

sorted_magerrmad_ind(sel, mf, ties) ==
    head(argsort(selected_magerrmad(sel), ties), 2 * mf)

sorted_medsrcbkg_ind(sel, mf, ties) ==
    head(argsort(selected_medsrcbkg(sel), ties), 2 * mf)

\* lines 1058-1073: the intersections
select_ind1(sel, mf, ties) ==
    intersect1d(sorted_medmagerr_ind(sel, mf, ties), sorted_magerrmad_ind(sel, mf, ties))

select_ind2(sel, mf, ties) ==
    intersect1d(sorted_ngoodobj_ind(sel, mf, ties), sorted_medsrcbkg_ind(sel, mf, ties))

best_ind(sel, mf, ties) ==
    intersect1d(select_ind1(sel, mf, ties), select_ind2(sel, mf, ties))

\* strict_final_ind with the error-based level tried before the
\* detections-and-background level
strict_final_ind_errfirst(sel, mf, ties) ==
    LET ind1 == select_ind1(sel, mf, ties)
        ind2 == select_ind2(sel, mf, ties)
        best == intersect1d(ind1, ind2)
        bkg  == sorted_medsrcbkg_ind(sel, mf, ties)
    IN  IF Len(best) >= mf
        THEN [ok |-> TRUE, level |-> "best", ind |-> head(best, mf)]
        ELSE IF Len(ind1) >= mf
        THEN [ok |-> TRUE, level |-> "err-mad", ind |-> head(ind1, mf)]
        ELSE IF Len(ind2) >= mf
        THEN [ok |-> TRUE, level |-> "ndet-bkg", ind |-> head(ind2, mf)]
        ELSE IF Len(bkg) >= mf
        THEN [ok |-> TRUE, level |-> "bkg", ind |-> head(bkg, mf)]
        ELSE [ok |-> FALSE, level |-> "fail", ind |-> <<>>]

\* strict_final_ind without its background-only level: failure is reported
\* as soon as the three intersections are below the quota
strict_final_ind_nobkg(sel, mf, ties) ==
    LET ind1 == select_ind1(sel, mf, ties)
        ind2 == select_ind2(sel, mf, ties)
        best == intersect1d(ind1, ind2)
    IN  IF Len(best) >= mf
        THEN [ok |-> TRUE, level |-> "best", ind |-> head(best, mf)]
        ELSE IF Len(ind2) >= mf
        THEN [ok |-> TRUE, level |-> "ndet-bkg", ind |-> head(ind2, mf)]
        ELSE IF Len(ind1) >= mf
        THEN [ok |-> TRUE, level |-> "err-mad", ind |-> head(ind1, mf)]
        ELSE [ok |-> FALSE, level |-> "fail", ind |-> <<>>]

\* lines 1075-1111: the cascade of the strict selection.  ok is FALSE for the
\* return of None at line 1111.
strict_final_ind(sel, mf, ties) ==
    LET ind1 == select_ind1(sel, mf, ties)
        ind2 == select_ind2(sel, mf, ties)
        best == intersect1d(ind1, ind2)
        bkg  == sorted_medsrcbkg_ind(sel, mf, ties)
    IN  IF Len(best) >= mf
        THEN [ok |-> TRUE, level |-> "best", ind |-> head(best, mf)]
        ELSE IF Len(ind2) >= mf
        THEN [ok |-> TRUE, level |-> "ndet-bkg", ind |-> head(ind2, mf)]
        ELSE IF Len(ind1) >= mf
        THEN [ok |-> TRUE, level |-> "err-mad", ind |-> head(ind1, mf)]
        ELSE IF Len(bkg) >= mf
        THEN [ok |-> TRUE, level |-> "bkg", ind |-> head(bkg, mf)]
        ELSE [ok |-> FALSE, level |-> "fail", ind |-> <<>>]

\* lines 1116-1123: too few gated frames for the strict selection
lowbkg_final_ind(sel, mf, ties) ==
    [ok |-> TRUE, level |-> "few", ind |-> head(argsort(selected_medsrcbkg(sel), ties), mf)]

\* lines 1050, 1113-1114, 1123
final_ind(sel, mf, ties) ==
    IF Len(sel) >= 2 * mf
    THEN strict_final_ind(sel, mf, ties)
    ELSE lowbkg_final_ind(sel, mf, ties)

\* select_photref_frames has not run
PhotPending == [ok |-> FALSE, level |-> "pending", frames |-> <<>>]

\* the boolean-mask index of line 1038 raised IndexError
PhotRaised == [ok |-> FALSE, level |-> "raised", frames |-> <<>>]

\* lines 1111, 1127: the first element of the returned pair: the list of
\* frames (positions of the glob), or None (ok = FALSE).  The mask selectind
\* has the length of the metric arrays; line 1038 applies it to
\* infodict['frames'] from position 0 on.
select_photref_frames(fl, snapshot, mf, forcecollectinfo, ties, havebin) ==
    LET info == infodict(fl, snapshot, forcecollectinfo, havebin)
        mask == maskind(selectind(info))
        fin  == final_ind(take(info.rows, mask), mf, ties)
    IN  [ok     |-> fin.ok,
         level  |-> fin.level,
         frames |-> take(take(info.frames, mask), fin.ind)]

\* line 1038, infodict['frames'][selectind]: when frames were skipped the mask
\* is shorter than the array it indexes.  numpy before 1.13 warns and takes
\* the positions where the mask is true; numpy from 1.13 on raises
\* IndexError.  Both run this Python 2 module.
select_photref_outcomes(fl, snapshot, mf, forcecollectinfo, ties, havebin) ==
    LET info == infodict(fl, snapshot, forcecollectinfo, havebin)
    IN  IF Len(info.rows) = Len(info.frames)
        THEN {select_photref_frames(fl, snapshot, mf, forcecollectinfo, ties, havebin)}
        ELSE {select_photref_frames(fl, snapshot, mf, forcecollectinfo, ties, havebin),
              PhotRaised}

----------------------------------------------------------------------------
(* The stage functions and their workers *)

\* most stage calls the driving script makes
MaxCalls == 2

\* most worker processes of a pool
MaxWorkers == 2

\* the default of maxworkertasks in every stage function
DefaultMaxWorkerTasks == 1000

\* the stage functions that map a worker over a task list with mp.Pool
StageKinds == {"xysdk", "shift", "transform", "photrefconv", "subconv", "epd"}

\* the file each stage's worker declares as its output
OutFile(kind) ==
    CASE kind = "xysdk"       -> "xysdk"        \* line 495
      [] kind = "shift"       -> "itrans"       \* lines 562-569
      [] kind = "transform"   -> "xtrns"        \* lines 654-661
      [] kind = "photrefconv" -> "photref"      \* lines 1145-1151
      [] kind = "subconv"     -> "subtracted"   \* lines 1374-1384
      [] kind = "epd"         -> "epdlc"        \* lcutils.py line 346

\* the file a stage's task list is made of: the glob pattern of the stage, or
\* the list its caller passes.  "raw" files (the calibrated frame, its source
\* list, its light curve) exist for every frame of the directory.
InFile(kind) ==
    CASE kind = "xysdk"       -> "raw"          \* line 529: *.fistar
      [] kind = "shift"       -> "raw"          \* line 602: *.fistar
      [] kind = "transform"   -> "raw"          \* line 693: *.fits
      [] kind = "photrefconv" -> "xtrns"        \* line 1193: photreflist
      [] kind = "subconv"     -> "xtrns"        \* line 1428: *-xtrns.fits
      [] kind = "epd"         -> "raw"          \* lcutils.py line 346: fitsilcfiles

\* os.path.exists for a file of a frame whose derived files are files
exists(files, name) == name = "raw" \/ name \in files

\* what a worker returned: the pair (x, y), with y the output path ("out") or
\* None; ret is "raised" when the worker raised instead, "none" for a bare
\* None.  rc is the exit status the worker saw, -1 if it ran no command.
Returned(x, y, rc) == [ret |-> "pair", x |-> x, y |-> y, rc |-> rc]

ReturnedNone(rc) == [ret |-> "none", x |-> NoFrame, y |-> None, rc |-> rc]

Raised == [ret |-> "raised", x |-> NoFrame, y |-> None, rc |-> -1]

NoResult == [ret |-> "pending", x |-> NoFrame, y |-> None, rc |-> -1]

\* the external command ran on the frame: it may or may not have written out
ran(files, out, wrote) == IF wrote THEN files \cup {out} ELSE files

\* the tail every worker of imagesubphot.py shares: success on exit status
\* zero, else the output is removed if it exists and None is returned
finish_worker(files, f, out, rc, wrote) ==
    IF rc = 0
    THEN [files |-> ran(files, out, wrote), result |-> Returned(f, "out", rc)]
    ELSE [files |-> ran(files, out, wrote) \ {out}, result |-> Returned(f, None, rc)]

\* lines 487-511
xysdk_coeffs_worker(files, f, rc, wrote) ==
    finish_worker(files, f, "xysdk", rc, wrote)

\* lines 549-586
astromref_shift_worker(files, f, rc, wrote) ==
    finish_worker(files, f, "itrans", rc, wrote)

\* lines 622-678.  With a transdir the path expression reads the undefined
\* name transpath (line 638) and the worker raises NameError; without the
\* itrans file it returns (frame, None) before any command runs.
frame_to_astromref_worker(files, f, transdir, rc, wrote) ==
    IF transdir
    THEN [files |-> files, result |-> Raised]
    ELSE IF ~exists(files, "itrans")
    THEN [files |-> files, result |-> Returned(f, None, -1)]
    ELSE finish_worker(files, f, "xtrns", rc, wrote)

\* lines 1131-1175
photref_convolution_worker(files, f, rc, wrote) ==
    finish_worker(files, f, "photref", rc, wrote)

\* lines 1359-1409
subframe_convolution_worker(files, f, rc, wrote) ==
    finish_worker(files, f, "subtracted", rc, wrote)

\* lcutils.py lines 358-363: the worker calls epd_fitslightcurve_imagesub and
\* drops what it returns, so it returns None; an exception of the EPD function
\* (rc # 0 here) leaves the worker.
epd_fitslightcurve_imagesub_worker(files, f, rc, wrote) ==
    IF rc = 0
    THEN [files |-> ran(files, "epdlc", wrote), result |-> ReturnedNone(rc)]
    ELSE [files |-> files, result |-> Raised]

\* the worker function each stage maps over its tasks
worker(kind, files, f, transdir, rc, wrote) ==
    CASE kind = "xysdk"       -> xysdk_coeffs_worker(files, f, rc, wrote)
      [] kind = "shift"       -> astromref_shift_worker(files, f, rc, wrote)
      [] kind = "transform"   -> frame_to_astromref_worker(files, f, transdir, rc, wrote)
      [] kind = "photrefconv" -> photref_convolution_worker(files, f, rc, wrote)
      [] kind = "subconv"     -> subframe_convolution_worker(files, f, rc, wrote)
      [] kind = "epd"         -> epd_fitslightcurve_imagesub_worker(files, f, rc, wrote)

\* the task list a stage builds: one task per frame whose input file exists,
\* in glob order
build_tasks(kind, d) ==
    SortedSeq({f \in 1..Len(d) : exists(d[f], InFile(kind))})

\* the value a stage returns from the results of pool.map
\*   imagesubphot.py: {x:y for (x,y) in results}
\*   lcutils.py line 355: {result for result in results}
NoValue == [type |-> "none", dict |-> <<>>, set |-> {}]

stage_return(kind, res) ==
    IF kind = "epd"
    THEN [type |-> "set", dict |-> <<>>, set |-> {res[t].y : t \in 1..Len(res)}]
    ELSE [type |-> "dict",
          dict |-> [x \in {res[t].x : t \in 1..Len(res)} |->
                       res[CHOOSE t \in 1..Len(res) :
                               /\ res[t].x = x
                               /\ \A u \in 1..Len(res) : res[u].x = x => u <= t].y],
          set  |-> {}]

NoCall == [status |-> "idle", kind |-> "none", transdir |-> FALSE,
           nworkers |-> 0, maxworkertasks |-> 0]

IdleWorker == [task |-> 0, ndone |-> 0]

\* a map that hands back as soon as no task is left in the queue
map_ready_unjoined(st) == \A t \in 1..Len(st) : st[t] # "queued"

\* pool.map has every result: no task is queued or running
map_ready(st) == \A t \in 1..Len(st) : st[t] \in {"done", "raised"}

\* pool.map found that a task raised; the exception is re-raised in the caller
map_failed(st) == \E t \in 1..Len(st) : st[t] = "raised"

----------------------------------------------------------------------------
(* The stage runner's variables at rest, for the selector specifications. *)

StageIdle ==
    /\ disk = <<>>
    /\ call = NoCall
    /\ tasks = <<>>
    /\ taskst = <<>>
    /\ results = <<>>
    /\ workers = <<>>
    /\ retval = NoValue
    /\ ncalls = 0

----------------------------------------------------------------------------
(* SpecAstrom: frames appear in the directory, then select_astromref_frame *)
(* runs once over what the glob returns.                                  *)

InitAstrom ==
    /\ fitslist = <<>>
    /\ ntop \in {ASTROMREF_TOP, ScaledTop}
    /\ sortTies \in {"stable", "reversed"}
    /\ HAVEBINPHOT \in BOOLEAN
    /\ astromref = AstromPending
    /\ minframes = 0
    /\ photrefs = PhotPending
    /\ pkl = NoPkl
    /\ forceinfo = FALSE
    /\ StageIdle

\* a frame file, with or without its companions, is in the directory
AstromFrameOnDisk ==
    /\ astromref = AstromPending
    /\ Len(fitslist) < MaxAstromFrames
    /\ \E p \in AstromProfiles : fitslist' = Append(fitslist, p)
    /\ UNCHANGED <<ntop, sortTies, HAVEBINPHOT, astromref, minframes, photrefs, pkl,
                   forceinfo>>
    /\ UNCHANGED stagevars

RunSelectAstromref ==
    /\ astromref = AstromPending
    /\ astromref' = select_astromref_frame(fitslist, HAVEBINPHOT, ntop, sortTies)
    /\ UNCHANGED <<fitslist, ntop, sortTies, HAVEBINPHOT, minframes, photrefs, pkl,
                   forceinfo>>
    /\ UNCHANGED stagevars

NextAstrom == AstromFrameOnDisk \/ RunSelectAstromref

SpecAstrom == InitAstrom /\ [][NextAstrom]_vars

----------------------------------------------------------------------------
(* SpecPhotref: frames appear in the directory, then select_photref_frames *)
(* runs once, with no snapshot file yet, over what the glob returns.       *)

InitPhotref ==
    /\ fitslist = <<>>
    /\ ntop = ASTROMREF_TOP
    /\ sortTies \in {"stable", "reversed"}
    /\ HAVEBINPHOT = TRUE
    /\ astromref = AstromPending
    /\ minframes = 0
    /\ photrefs = PhotPending
    /\ pkl = NoPkl
    /\ forceinfo = FALSE
    /\ StageIdle

PhotFrameOnDisk ==
    /\ photrefs = PhotPending
    /\ Len(fitslist) < MaxPhotFrames
    /\ \E p \in PhotProfiles : fitslist' = Append(fitslist, p)
    /\ UNCHANGED <<ntop, sortTies, HAVEBINPHOT, astromref, minframes, photrefs, pkl,
                   forceinfo>>
    /\ UNCHANGED stagevars

RunSelectPhotref ==
    /\ photrefs = PhotPending
    /\ \E mf \in 1..MaxMinFrames :
        /\ minframes' = mf
        /\ photrefs' \in select_photref_outcomes(fitslist, pkl, mf, FALSE, sortTies,
                                                HAVEBINPHOT)
        /\ pkl' = infodict(fitslist, pkl, FALSE, HAVEBINPHOT)
    /\ UNCHANGED <<fitslist, ntop, sortTies, HAVEBINPHOT, astromref, forceinfo>>
    /\ UNCHANGED stagevars

NextPhotref == PhotFrameOnDisk \/ RunSelectPhotref

SpecPhotref == InitPhotref /\ [][NextPhotref]_vars

----------------------------------------------------------------------------
(* SpecStage: a script calls stage functions one after another on a        *)
(* directory of frames.  Each call builds its task list, maps its worker   *)
(* over the list on a pool of nworkers processes, and returns or raises.   *)
(* Within the bounds a pool.map chunk is one task (a chunk holds more than *)
(* one only beyond 4*nworkers tasks).                                      *)

SelIdle ==
    /\ fitslist = <<>>
    /\ ntop = ASTROMREF_TOP
    /\ sortTies = "stable"
    /\ HAVEBINPHOT = TRUE
    /\ astromref = AstromPending
    /\ minframes = 0
    /\ photrefs = PhotPending
    /\ pkl = NoPkl
    /\ forceinfo = FALSE

\* files a directory may hold from earlier runs before the script starts
StaleFiles == {"itrans", "xtrns"}

\* the directories the script is started on: one or two frames, each with any
\* of the stale files
StageDirs == UNION {[1..n -> SUBSET StaleFiles] : n \in {1, 2}}

InitStage ==
    /\ SelIdle
    /\ disk \in StageDirs
    /\ call = NoCall
    /\ tasks = <<>>
    /\ taskst = <<>>
    /\ results = <<>>
    /\ workers = <<>>
    /\ retval = NoValue
    /\ ncalls = 0

\* the script calls a stage function: the task list is built and the pool of
\* nworkers processes is created
StageCall ==
    /\ call.status \in {"idle", "returned"}
    /\ ncalls < MaxCalls
    /\ \E kind \in StageKinds, transdir \in BOOLEAN,
          nw \in 1..MaxWorkers, mwt \in {1, DefaultMaxWorkerTasks} :
        /\ transdir => kind = "transform"
        /\ call' = [status |-> "mapping", kind |-> kind, transdir |-> transdir,
                    nworkers |-> nw, maxworkertasks |-> mwt]
        /\ tasks' = build_tasks(kind, disk)
        /\ taskst' = [t \in 1..Len(build_tasks(kind, disk)) |-> "queued"]
        /\ results' = [t \in 1..Len(build_tasks(kind, disk)) |-> NoResult]
        /\ workers' = [w \in 1..nw |-> IdleWorker]
    /\ retval' = NoValue
    /\ ncalls' = ncalls + 1
    /\ UNCHANGED disk
    /\ UNCHANGED selvars

\* an idle worker process takes the next queued task and starts its function
WorkerStart ==
    /\ call.status \in {"mapping", "raised"}
    /\ \E w \in 1..Len(workers), t \in 1..Len(tasks) :
        /\ workers[w].task = 0
        /\ workers[w].ndone < call.maxworkertasks
        /\ taskst[t] = "queued"
        /\ \A u \in 1..(t - 1) : taskst[u] # "queued"
        /\ taskst' = [taskst EXCEPT ![t] = "running"]
        /\ workers' = [workers EXCEPT ![w].task = t]
    /\ UNCHANGED <<disk, call, tasks, results, retval, ncalls>>
    /\ UNCHANGED selvars

\* the worker function of a running task ends: the external command has
\* exited with rc and has or has not written the output
WorkerFinish ==
    /\ \E w \in 1..Len(workers), rc \in {0, 1}, wrote \in BOOLEAN :
        /\ workers[w].task # 0
        /\ LET t == workers[w].task
               f == tasks[t]
               r == worker(call.kind, disk[f], f, call.transdir, rc, wrote)
           IN  /\ disk' = [disk EXCEPT ![f] = r.files]
               /\ results' = [results EXCEPT ![t] = r.result]
               /\ taskst' = [taskst EXCEPT
                               ![t] = IF r.result.ret = "raised" THEN "raised" ELSE "done"]
               /\ workers' = [workers EXCEPT ![w] =
                                [task |-> 0, ndone |-> workers[w].ndone + 1]]
    /\ UNCHANGED <<call, tasks, retval, ncalls>>
    /\ UNCHANGED selvars

\* maxtasksperchild: a worker that has finished maxworkertasks tasks exits and
\* the pool puts a fresh process in its place
WorkerRecycle ==
    /\ call.status \in {"mapping", "raised"}
    /\ \E w \in 1..Len(workers) :
        /\ workers[w].task = 0
        /\ workers[w].ndone = call.maxworkertasks
        /\ workers' = [workers EXCEPT ![w] = IdleWorker]
    /\ UNCHANGED <<disk, call, tasks, taskst, results, retval, ncalls>>
    /\ UNCHANGED selvars

\* pool.map returns the results, the pool is closed and joined, and the stage
\* function returns its value
MapReturn ==
    /\ call.status = "mapping"
    /\ map_ready(taskst)
    /\ ~map_failed(taskst)
    /\ call' = [call EXCEPT !.status = "returned"]
    /\ retval' = stage_return(call.kind, results)
    /\ workers' = <<>>
    /\ UNCHANGED <<disk, tasks, taskst, results, ncalls>>
    /\ UNCHANGED selvars

\* pool.map re-raises the exception of a task: at once when the failure
\* arrives (Python 2) or when every task has ended (Python 3).  The stage
\* function has no handler, so the call raises and returns no value.
MapRaise ==
    /\ call.status = "mapping"
    /\ map_failed(taskst)
    /\ call' = [call EXCEPT !.status = "raised"]
    /\ UNCHANGED <<disk, tasks, taskst, results, workers, retval, ncalls>>
    /\ UNCHANGED selvars

NextStage ==
    \/ StageCall
    \/ WorkerStart
    \/ WorkerFinish
    \/ WorkerRecycle
    \/ MapReturn
    \/ MapRaise

SpecStage == InitStage /\ [][NextStage]_vars

----------------------------------------------------------------------------
(* Claims about the selectors *)

AstromDone == astromref.level # "pending"

PhotDone == photrefs.level # "pending"

\* the member of the set idx of metric positions that comes first in ranking
FirstInRanking(ranking, idx) ==
    ranking[CHOOSE k \in 1..Len(ranking) :
                /\ ranking[k] \in idx
                /\ \A j \in 1..(k - 1) : ranking[j] \notin idx]

\* C1: in single-pick selection with the rankings cut to 200, whenever the
\* intersection of the four cut rankings is non-empty, the frame returned is
\* the member of the intersection that ranks highest by seeing S.
C1_SinglePickIsSeeingTop ==
    LET best == best_frame_ind(fitslist, HAVEBINPHOT, ntop, sortTies)
        sval == median_sval_ind(fitslist, HAVEBINPHOT, ntop, sortTies)
        m    == measured(fitslist, HAVEBINPHOT)
    IN  (AstromDone /\ ntop = ASTROMREF_TOP /\ Len(best) > 0)
            => astromref.frame = m[FirstInRanking(sval, Range(best))]

\* C2: quota-pick returns exactly minframes frames, or reports failure with
\* no list; never a shorter list.
C2_QuotaExactOrFailure ==
    PhotDone =>
        IF photrefs.ok
        THEN Len(photrefs.frames) = minframes
        ELSE photrefs.frames = <<>>

\* the gated pool of the finished quota-pick run, read off the snapshot the
\* run wrote: the positions (in the snapshot) that pass the hard gate
GatedPos ==
    {i \in 1..Len(pkl.rows) :
        /\ Lt(fabs(pkl.rows[i].HA), maxhourangle)
        /\ Lt(pkl.rows[i].Z, maxzenithdist)
        /\ (Lt(fabs(pkl.rows[i].MOONPH), maxmoonphase)
                \/ Lt(pkl.rows[i].MOONELEV, maxmoonelev))}

GatedRows == take(pkl.rows, SortedSeq(GatedPos))

GatedFrames == take(pkl.frames, SortedSeq(GatedPos))

\* the candidate sets of the four cascade levels over the gated rows, in the
\* order of the claim: (N cap B) cap (E cap M), N cap B, E cap M, the
\* background ranking
CascadeLevels(rows) ==
    LET N == Range(sorted_ngoodobj_ind(rows, minframes, sortTies))
        B == Range(sorted_medsrcbkg_ind(rows, minframes, sortTies))
        E == Range(sorted_medmagerr_ind(rows, minframes, sortTies))
        M == Range(sorted_magerrmad_ind(rows, minframes, sortTies))
    IN  << [name |-> "best",     cand |-> SortedSeq((N \cap B) \cap (E \cap M))],
           [name |-> "ndet-bkg", cand |-> SortedSeq(N \cap B)],
           [name |-> "err-mad",  cand |-> SortedSeq(E \cap M)],
           [name |-> "bkg",      cand |-> sorted_medsrcbkg_ind(rows, minframes, sortTies)] >>

\* C10: with a gated pool of at least 2*minframes frames the result is the
\* first minframes entries of the first level, in the order (N cap B) cap
\* (E cap M), N cap B, E cap M, background ranking, whose candidate set has at
\* least minframes entries; a level is used only if every earlier one is
\* below the quota, and failure is reported only if all four are.
C10_CascadeOrder ==
    PhotDone =>
        \A gated \in {SortedSeq(GatedPos)} :
            Len(gated) >= 2 * minframes =>
                \A L \in {CascadeLevels(take(pkl.rows, gated))} :
                    LET met == {k \in 1..4 : Len(L[k].cand) >= minframes}
                    IN  IF met = {}
                        THEN ~photrefs.ok /\ photrefs.level = "fail"
                        ELSE \E k \in met :
                                /\ \A y \in met : k <= y
                                /\ photrefs.ok
                                /\ photrefs.level = L[k].name
                                /\ photrefs.frames =
                                       take(take(pkl.frames, gated),
                                            head(L[k].cand, minframes))

\* C10 witness: a run over a large enough gated pool that fell through to the
\* third level: the first two levels were below the quota
C10_Witness ==
    /\ PhotDone
    /\ Len(GatedRows) >= 2 * minframes
    /\ photrefs.level = "err-mad"
    /\ \A L \in {CascadeLevels(GatedRows)} :
            Len(L[1].cand) < minframes /\ Len(L[2].cand) < minframes

----------------------------------------------------------------------------
(* Claims about the stage runner *)

\* the tasks of the current call whose recorded outcome is the failure marker
FailedTasks == {t \in 1..Len(tasks) : results[t].ret = "pair" /\ results[t].y = None}

\* the tasks of the current call whose recorded outcome is an output path
SucceededTasks == {t \in 1..Len(tasks) : results[t].ret = "pair" /\ results[t].y = "out"}

\* no task of the current call is waiting or running
Drained == \A t \in 1..Len(tasks) : taskst[t] \notin {"queued", "running"}

\* C3: after a stage call returns, no task recorded as failed has its
\* declared output on disk, whatever was there before the task started and
\* whether the transform ran or not.
C3_FailedOutputAbsent ==
    call.status = "returned" =>
        \A t \in FailedTasks : ~exists(disk[tasks[t]], OutFile(call.kind))

\* C4: the value a stage call returns holds exactly one outcome per submitted
\* task, each an output path or the failure marker.
C4_ReturnAccountsForTasks ==
    call.status = "returned" =>
        /\ retval.type = "dict"
        /\ DOMAIN retval.dict = Range(tasks)
        /\ \A f \in DOMAIN retval.dict : retval.dict[f] \in {"out", None}

\* C5: a frame is in the task list of the transform stage only if the shift
\* file the stage consumes exists for it.
C5_TasksHaveUpstream ==
    (call.status = "mapping" /\ call.kind = "transform") =>
        \A t \in 1..Len(tasks) : exists(disk[tasks[t]], "itrans")

\* C6: a task is recorded as successful only if the transform exited with
\* status zero and the declared output exists on disk.
C6_SuccessHasOutput ==
    call.status \in {"mapping", "returned"} =>
        \A t \in SucceededTasks :
            /\ results[t].rc = 0
            /\ exists(disk[tasks[t]], OutFile(call.kind))

\* C7: a failure of a task, an error raised inside the worker included, never
\* makes the stage call raise: the call returns the aggregated result map.
C7_StageNeverRaises == call.status # "raised"

\* C8: a stage call returns only after every task has ended, and the next
\* stage call is made (its task list built) only when no task of the previous
\* call is waiting or running.
C8_StageBarrier ==
    [][/\ call'.status = "returned" => (\A t \in 1..Len(taskst') : taskst'[t] = "done")
       /\ ncalls' # ncalls => Drained]_vars

\* a second stage call has returned after mapping two tasks
C8_Witness ==
    /\ ncalls = 2
    /\ call.status = "returned"
    /\ Len(tasks) = 2
    /\ Drained

----------------------------------------------------------------------------
(* SpecScenario: the five-frame pool of the selection scenario appears in   *)
(* the directory, possibly among frames that lack a companion file, and     *)
(* select_astromref_frame runs over it.  D is in hundredths; the scenario   *)
(* gives |D|, so each frame's D has either sign.                            *)

\* most frames without companions that share the directory with the pool
MaxOtherFiles == 1

ScenarioS == <<10, 9, 8, 7, 6>>

ScenarioAbsD == <<1, 50, 2, 3, 4>>

ScenarioB == <<5, 5, 5, 1, 1>>

ScenarioN == <<100, 100, 100, 100, 50>>

\* the frames of fitslist that belong to the pool
ScenarioPlaced == Len(goodframes(fitslist))

InitScenario ==
    /\ fitslist = <<>>
    /\ ntop = ASTROMREF_TOP
    /\ sortTies \in {"stable", "reversed"}
    /\ HAVEBINPHOT \in BOOLEAN
    /\ astromref = AstromPending
    /\ minframes = 0
    /\ photrefs = PhotPending
    /\ pkl = NoPkl
    /\ forceinfo = FALSE
    /\ StageIdle

\* the next frame of the pool is in the directory, with both companions
ScenarioFrameOnDisk ==
    /\ astromref = AstromPending
    /\ ScenarioPlaced < Len(ScenarioS)
    /\ \E sign \in {-1, 1} :
        LET k == ScenarioPlaced + 1
        IN  fitslist' = Append(fitslist,
                AstromFrame(ScenarioS[k], sign * ScenarioAbsD[k], ScenarioB[k],
                            ScenarioN[k], FALSE, TRUE))
    /\ UNCHANGED <<ntop, sortTies, HAVEBINPHOT, astromref, minframes, photrefs, pkl,
                   forceinfo>>
    /\ UNCHANGED stagevars

\* a frame without its companion files is in the directory
OtherFrameOnDisk ==
    /\ astromref = AstromPending
    /\ Len(fitslist) - ScenarioPlaced < MaxOtherFiles
    /\ fitslist' = Append(fitslist, AstromFrame(2, 0, 1, 2, FALSE, FALSE))
    /\ UNCHANGED <<ntop, sortTies, HAVEBINPHOT, astromref, minframes, photrefs, pkl,
                   forceinfo>>
    /\ UNCHANGED stagevars

RunSelectScenario ==
    /\ astromref = AstromPending
    /\ ScenarioPlaced = Len(ScenarioS)
    /\ astromref' = select_astromref_frame(fitslist, HAVEBINPHOT, ntop, sortTies)
    /\ UNCHANGED <<fitslist, ntop, sortTies, HAVEBINPHOT, minframes, photrefs, pkl,
                   forceinfo>>
    /\ UNCHANGED stagevars

NextScenario == ScenarioFrameOnDisk \/ OtherFrameOnDisk \/ RunSelectScenario

SpecScenario == InitScenario /\ [][NextScenario]_vars

\* C11: for the pool S=[10,9,8,7,6], |D|=[0.01,0.5,0.02,0.03,0.04],
\* B=[5,5,5,1,1], N=[100,100,100,100,50] select_astromref_frame returns the
\* frame at index 0 of the pool.
C11_ScenarioPicksIndex0 ==
    AstromDone =>
        /\ astromref.frame # NoFrame
        /\ astromref.frame = goodframes(fitslist)[1]
        /\ fitslist[astromref.frame].S = ScenarioS[1]

\* the selection has run on the pool, whose first frame is not the first file
C11_Witness ==
    /\ AstromDone
    /\ ~fitslist[1].comp
    /\ astromref.frame = 2

----------------------------------------------------------------------------
(* More claims about select_photref_frames *)

\* the header keywords the gate reads
GateKeys(row) == {row.HA, row.Z, row.MOONPH, row.MOONELEV}

\* every metric of a row
AllMetrics(row) == GateKeys(row) \cup {row.N, row.E, row.M, row.B}

\* C12: with fewer than 2*minframes gated frames the cascade is skipped and
\* the result is the minframes gated frames of lowest median background.
C12_SmallPoolLowestBackground ==
    PhotDone =>
        \A gated \in {SortedSeq(GatedPos)} :
            Len(gated) < 2 * minframes =>
                /\ photrefs.ok
                /\ photrefs.level = "few"
                /\ Len(photrefs.frames) = minframes
                /\ Range(photrefs.frames) \subseteq {pkl.frames[i] : i \in Range(gated)}
                /\ \A i \in Range(gated), j \in Range(gated) :
                       (pkl.frames[i] \in Range(photrefs.frames)
                            /\ pkl.frames[j] \notin Range(photrefs.frames))
                       => pkl.rows[i].B <= pkl.rows[j].B

\* C14: a frame with a NaN or missing gating metric never passes the gate.
C14_NaNFailsGate ==
    PhotDone =>
        \A mask \in {selectind(pkl)} :
            \A i \in 1..Len(pkl.rows) :
                NaN \in GateKeys(pkl.rows[i]) => ~mask[i]

\* C15: no frame with an unavailable metric is in the pool that is ranked,
\* and none is returned.
C15_NoMissingMetricInPool ==
    PhotDone =>
        /\ \A sel \in {selected_rows(pkl)} :
               \A k \in 1..Len(sel) : NaN \notin AllMetrics(sel[k])
        /\ \A k \in 1..Len(photrefs.frames) :
               NaN \notin AllMetrics(fitslist[photrefs.frames[k]])

----------------------------------------------------------------------------
(* More claims about select_astromref_frame *)

\* C13: when no frame has metrics (no frame matched, none has both companion
\* files, or every frame was skipped), select_astromref_frame returns no
\* frame and takes its failure branch.
C13_EmptyPoolFails ==
    (AstromDone /\ Len(measured(fitslist, HAVEBINPHOT)) = 0) =>
        astromref = [frame |-> NoFrame, level |-> "none"]

\* the run ended with no frame although frames with companions were there:
\* all of them were binary and skipped
C13_Witness ==
    /\ AstromDone
    /\ Len(goodframes(fitslist)) > 0
    /\ Len(measured(fitslist, HAVEBINPHOT)) = 0
    /\ astromref.frame = NoFrame

\* C16: without the binary reader a frame with binary photometry is skipped
\* and is never returned as the reference.
C16_SkippedFrameNotReturned ==
    (AstromDone /\ ntop = ASTROMREF_TOP /\ ~HAVEBINPHOT /\ astromref.frame # NoFrame) =>
        ~fitslist[astromref.frame].bin

----------------------------------------------------------------------------
(* More claims about the stage runner *)

\* the task list of the call has just been built: no worker has taken a task
TasksJustBuilt ==
    /\ call.status = "mapping"
    /\ \A t \in 1..Len(tasks) : taskst[t] = "queued"

\* C17: the task list a stage builds holds only frames whose declared output
\* for the stage is missing; a frame whose output exists is not reprocessed.
C17_RerunSkipsExistingOutput ==
    TasksJustBuilt =>
        \A t \in 1..Len(tasks) : ~exists(disk[tasks[t]], OutFile(call.kind))

----------------------------------------------------------------------------
(* SpecCache: select_photref_frames is called repeatedly on a directory    *)
(* that gains frames between the calls; the first call writes the snapshot *)
(* TM-imagesub-photref.pkl, later calls find it.  ncalls counts the calls. *)

\* most frames in the directory of the repeated selection
MaxCacheFrames == 3

CacheProfiles ==
    { PhotFrame(0, 10, 10, -20, 2, 1, 1, 1),     \* good on every count
      PhotFrame(1, 10, 10, -20, 1, 2, 2, 2),     \* passes the gate, poorer
      PhotFrame(5, 10, 10, -20, 2, 1, 1, 1) }    \* hour angle too large

InitCache ==
    /\ fitslist = <<>>
    /\ ntop = ASTROMREF_TOP
    /\ sortTies \in {"stable", "reversed"}
    /\ HAVEBINPHOT = TRUE
    /\ astromref = AstromPending
    /\ minframes = 0
    /\ photrefs = PhotPending
    /\ pkl = NoPkl
    /\ forceinfo = FALSE
    /\ StageIdle

CacheFrameOnDisk ==
    /\ Len(fitslist) < MaxCacheFrames
    /\ \E p \in CacheProfiles : fitslist' = Append(fitslist, p)
    /\ UNCHANGED <<ntop, sortTies, HAVEBINPHOT, astromref, minframes, photrefs, pkl,
                   forceinfo>>
    /\ UNCHANGED stagevars

RunSelectCached ==
    /\ ncalls < MaxCalls
    /\ \E mf \in 1..MaxMinFrames, force \in BOOLEAN :
        /\ minframes' = mf
        /\ forceinfo' = force
        /\ photrefs' \in select_photref_outcomes(fitslist, pkl, mf, force, sortTies,
                                                HAVEBINPHOT)
        /\ pkl' = infodict(fitslist, pkl, force, HAVEBINPHOT)
    /\ ncalls' = ncalls + 1
    /\ UNCHANGED <<fitslist, ntop, sortTies, HAVEBINPHOT, astromref>>
    /\ UNCHANGED <<disk, call, tasks, taskst, results, workers, retval>>

NextCache == CacheFrameOnDisk \/ RunSelectCached

SpecCache == InitCache /\ [][NextCache]_vars

\* C18: a call that finds the snapshot and is not forced leaves it as it is
\* and selects from the snapshot's frames and values, whatever is on disk;
\* the snapshot is written, as a whole from the frames on disk, only by a
\* call that finds none or is forced.
C18_SnapshotReused ==
    [][ncalls' # ncalls =>
          IF pkl.exists /\ ~forceinfo'
          THEN /\ pkl' = pkl
               /\ Range(photrefs'.frames) \subseteq Range(pkl.frames)
               /\ photrefs' = select_photref_frames(<<>>, pkl, minframes', FALSE, sortTies,
                                                      HAVEBINPHOT)
          ELSE /\ pkl'.exists
               /\ pkl'.frames = goodframes(fitslist)
               /\ pkl'.rows = take(fitslist, goodframes(fitslist))]_vars

\* a second, unforced call has run on a directory that holds a frame the
\* snapshot does not
C18_Witness ==
    /\ ncalls = 2
    /\ ~forceinfo
    /\ pkl.exists
    /\ Len(pkl.frames) < Len(goodframes(fitslist))
    /\ photrefs.ok
    /\ Len(photrefs.frames) > 0

----------------------------------------------------------------------------
(* SpecPool: one pool.map over n tasks, with the batching of                *)
(* multiprocessing.Pool.  map cuts the task list into chunks of chunksize   *)
(* consecutive tasks; a worker process takes a chunk, calls the worker      *)
(* function on each of its tasks in turn, and counts the chunk as one       *)
(* completed task towards maxtasksperchild.                                 *)

\* most tasks of the mapped list
MaxPoolTasks == 5

\* Pool.map: chunksize, extra = divmod(len(iterable), len(pool) * 4), plus one
\* if extra is not zero
chunksize(n, nworkers) ==
    (n \div (4 * nworkers)) + (IF n % (4 * nworkers) # 0 THEN 1 ELSE 0)

\* the chunk task t belongs to
chunk_of(t, cs) == ((t - 1) \div cs) + 1

\* a fresh pool process: no chunk in hand, no chunk completed, no call of the
\* worker function made
FreshProcess == [chunk |-> 0, ndone |-> 0, ran |-> 0]

InitPool ==
    /\ SelIdle
    /\ disk = <<>>
    /\ call = NoCall
    /\ tasks = <<>>
    /\ taskst = <<>>
    /\ results = <<>>
    /\ workers = <<>>
    /\ retval = NoValue
    /\ ncalls = 0

\* pool = mp.Pool(nworkers, maxtasksperchild=maxworkertasks); pool.map(...)
PoolMap ==
    /\ call.status = "idle"
    /\ \E n \in 0..MaxPoolTasks, nw \in 1..MaxWorkers,
          mwt \in {1, DefaultMaxWorkerTasks} :
        /\ call' = [status |-> "mapping", kind |-> "xysdk", transdir |-> FALSE,
                    nworkers |-> nw, maxworkertasks |-> mwt]
        /\ tasks' = [t \in 1..n |-> t]
        /\ taskst' = [t \in 1..n |-> "queued"]
        /\ workers' = [w \in 1..nw |-> FreshProcess]
    /\ ncalls' = ncalls + 1
    /\ UNCHANGED <<disk, results, retval>>
    /\ UNCHANGED selvars

\* a process with fewer than maxtasksperchild chunks completed takes the next
\* chunk off the queue
PoolTakeChunk ==
    /\ call.status = "mapping"
    /\ \E w \in 1..Len(workers), t \in 1..Len(tasks) :
        /\ workers[w].chunk = 0
        /\ workers[w].ndone < call.maxworkertasks
        /\ taskst[t] = "queued"
        /\ \A u \in 1..(t - 1) : taskst[u] # "queued"
        /\ LET cs == chunksize(Len(tasks), call.nworkers)
               c  == chunk_of(t, cs)
           IN  /\ workers' = [workers EXCEPT ![w].chunk = c]
               /\ taskst' = [u \in 1..Len(tasks) |->
                               IF chunk_of(u, cs) = c THEN "running" ELSE taskst[u]]
    /\ UNCHANGED <<disk, call, tasks, results, retval, ncalls>>
    /\ UNCHANGED selvars

\* the process calls the worker function on the next task of its chunk; with
\* the last task of the chunk it has completed one more chunk
PoolRunTask ==
    /\ call.status = "mapping"
    /\ \E w \in 1..Len(workers), t \in 1..Len(tasks) :
        /\ workers[w].chunk # 0
        /\ LET cs == chunksize(Len(tasks), call.nworkers)
               left == {u \in 1..Len(tasks) :
                           chunk_of(u, cs) = workers[w].chunk /\ taskst[u] = "running"}
           IN  /\ t \in left
               /\ \A u \in left : t <= u
               /\ taskst' = [taskst EXCEPT ![t] = "done"]
               /\ workers' = [workers EXCEPT ![w] =
                     IF left = {t}
                     THEN [chunk |-> 0, ndone |-> workers[w].ndone + 1,
                           ran |-> workers[w].ran + 1]
                     ELSE [chunk |-> workers[w].chunk, ndone |-> workers[w].ndone,
                           ran |-> workers[w].ran + 1]]
    /\ UNCHANGED <<disk, call, tasks, results, retval, ncalls>>
    /\ UNCHANGED selvars

\* a process that has completed maxtasksperchild chunks exits and the pool
\* starts a fresh one in its place
PoolReplace ==
    /\ call.status = "mapping"
    /\ \E w \in 1..Len(workers) :
        /\ workers[w].chunk = 0
        /\ workers[w].ndone = call.maxworkertasks
        /\ workers' = [workers EXCEPT ![w] = FreshProcess]
    /\ UNCHANGED <<disk, call, tasks, taskst, results, retval, ncalls>>
    /\ UNCHANGED selvars

\* pool.map returns; pool.close(); pool.join()
PoolJoin ==
    /\ call.status = "mapping"
    /\ \A t \in 1..Len(tasks) : taskst[t] = "done"
    /\ call' = [call EXCEPT !.status = "returned"]
    /\ workers' = <<>>
    /\ UNCHANGED <<disk, tasks, taskst, results, retval, ncalls>>
    /\ UNCHANGED selvars

NextPool == PoolMap \/ PoolTakeChunk \/ PoolRunTask \/ PoolReplace \/ PoolJoin

SpecPool == InitPool /\ [][NextPool]_vars

\* C19: no worker process makes more than maxworkertasks calls of the worker
\* function in its lifetime.
C19_WorkerTaskLimit ==
    \A w \in 1..Len(workers) : workers[w].ran <= call.maxworkertasks

----------------------------------------------------------------------------
(* SpecFallback: select_astromref_frame on a directory with more frames     *)
(* than the rankings keep, so that the intersections can be empty and the   *)
(* fallback branches are taken.  The cut of 200 is scaled down to           *)
(* FallbackTop; every frame has text photometry and both companions.        *)

\* most frames in the directory
MaxFallbackFrames == 4

\* the scaled-down ranking cut
FallbackTop == 2

FallbackProfiles == {p \in AstromProfiles : p.comp /\ ~p.bin}

InitFallback ==
    /\ fitslist = <<>>
    /\ ntop = FallbackTop
    /\ sortTies \in {"stable", "reversed"}
    /\ HAVEBINPHOT = TRUE
    /\ astromref = AstromPending
    /\ minframes = 0
    /\ photrefs = PhotPending
    /\ pkl = NoPkl
    /\ forceinfo = FALSE
    /\ StageIdle

FallbackFrameOnDisk ==
    /\ astromref = AstromPending
    /\ Len(fitslist) < MaxFallbackFrames
    /\ \E p \in FallbackProfiles : fitslist' = Append(fitslist, p)
    /\ UNCHANGED <<ntop, sortTies, HAVEBINPHOT, astromref, minframes, photrefs, pkl,
                   forceinfo>>
    /\ UNCHANGED stagevars

RunSelectFallback ==
    /\ astromref = AstromPending
    /\ astromref' = select_astromref_frame(fitslist, HAVEBINPHOT, ntop, sortTies)
    /\ UNCHANGED <<fitslist, ntop, sortTies, HAVEBINPHOT, minframes, photrefs, pkl,
                   forceinfo>>
    /\ UNCHANGED stagevars

NextFallback == FallbackFrameOnDisk \/ RunSelectFallback

SpecFallback == InitFallback /\ [][NextFallback]_vars

\* the candidate sets of the fallback branches, in the order of the claim:
\* S cap D cap N, S cap D, the S ranking
FallbackLevels ==
    LET S == Range(median_sval_ind(fitslist, HAVEBINPHOT, ntop, sortTies))
        D == Range(median_dval_ind(fitslist, HAVEBINPHOT, ntop, sortTies))
        N == Range(good_detections_ind(fitslist, HAVEBINPHOT, ntop, sortTies))
    IN  << [name |-> "sdndet", cand |-> (S \cap D) \cap N],
           [name |-> "sd",     cand |-> S \cap D],
           [name |-> "s",      cand |-> S] >>

\* C20: when the four-way intersection is empty the frame returned is the
\* member of largest S (the seeing-ranked top) of the first non-empty set
\* among S cap D cap N, S cap D and the S ranking.
C20_FallbackIsSeeingTop ==
    (AstromDone /\ Len(best_frame_ind(fitslist, HAVEBINPHOT, ntop, sortTies)) = 0) =>
        \A L \in {FallbackLevels} :
            LET met == {k \in 1..3 : L[k].cand # {}}
                m   == measured(fitslist, HAVEBINPHOT)
            IN  IF met = {}
                THEN astromref.frame = NoFrame
                ELSE \E k \in met :
                        /\ \A y \in met : k <= y
                        /\ astromref.level = L[k].name
                        /\ astromref.frame \in {m[i] : i \in L[k].cand}
                        /\ \A i \in L[k].cand :
                               fitslist[m[i]].S <= fitslist[astromref.frame].S

----------------------------------------------------------------------------
(* SpecSkip: select_photref_frames on a directory that may hold binary      *)
(* photometry files, with or without the binary reader.                    *)

\* most frames the glob returns
MaxSkipFrames == 3

SkipProfiles ==
    { PhotFrame(0, 10, 10, -20, 2, 1, 1, 1),                \* text; passes the gate
      PhotFrame(1, 10, 10, -20, 2, 2, 1, 2),                \* text; passes, brighter sky
      PhotFrame(5, 10, 10, -20, 2, 1, 1, 1),                \* text; hour angle too large
      BinaryPhot(PhotFrame(0, 10, 10, -20, 2, 1, 1, 1)),    \* binary; passes the gate
      BinaryPhot(PhotFrame(5, 10, 10, -20, 2, 1, 1, 1)) }   \* binary; hour angle too large

InitSkip ==
    /\ fitslist = <<>>
    /\ ntop = ASTROMREF_TOP
    /\ sortTies \in {"stable", "reversed"}
    /\ HAVEBINPHOT \in BOOLEAN
    /\ astromref = AstromPending
    /\ minframes = 0
    /\ photrefs = PhotPending
    /\ pkl = NoPkl
    /\ forceinfo = FALSE
    /\ StageIdle

SkipFrameOnDisk ==
    /\ photrefs = PhotPending
    /\ Len(fitslist) < MaxSkipFrames
    /\ \E p \in SkipProfiles : fitslist' = Append(fitslist, p)
    /\ UNCHANGED <<ntop, sortTies, HAVEBINPHOT, astromref, minframes, photrefs, pkl,
                   forceinfo>>
    /\ UNCHANGED stagevars

RunSelectSkip ==
    /\ photrefs = PhotPending
    /\ \E mf \in 1..MaxMinFrames :
        /\ minframes' = mf
        /\ photrefs' \in select_photref_outcomes(fitslist, pkl, mf, FALSE, sortTies,
                                                HAVEBINPHOT)
        /\ pkl' = infodict(fitslist, pkl, FALSE, HAVEBINPHOT)
    /\ UNCHANGED <<fitslist, ntop, sortTies, HAVEBINPHOT, astromref, forceinfo>>
    /\ UNCHANGED stagevars

NextSkip == SkipFrameOnDisk \/ RunSelectSkip

SpecSkip == InitSkip /\ [][NextSkip]_vars

\* whether a frame's own header passes the hard gate
PassesGate(f) ==
    /\ Lt(fabs(f.HA), maxhourangle)
    /\ Lt(f.Z, maxzenithdist)
    /\ (Lt(fabs(f.MOONPH), maxmoonphase) \/ Lt(f.MOONELEV, maxmoonelev))

\* C21: every frame quota-pick returns, at every level, has both companions
\* and passes the hard gate on its own header values, and no frame is
\* returned twice.
C21_ReturnedFramesPassGate ==
    (PhotDone /\ photrefs.ok) =>
        /\ \A k \in 1..Len(photrefs.frames) :
               /\ photrefs.frames[k] \in Range(goodframes(fitslist))
               /\ PassesGate(fitslist[photrefs.frames[k]])
        /\ \A k \in 1..Len(photrefs.frames), j \in 1..Len(photrefs.frames) :
               photrefs.frames[k] = photrefs.frames[j] => k = j

----------------------------------------------------------------------------
(* Ties in the rankings *)

\* whether ranking, a sequence of positions of the metric array v, lists
\* positions of equal value in ascending order of position
TiesByIndex(ranking, v) ==
    \A a \in 1..Len(ranking), b \in 1..Len(ranking) :
        (a < b /\ v[ranking[a]] = v[ranking[b]]) => ranking[a] < ranking[b]

\* C22: in every ranking of single-pick, ascending (|D|, B) or descending
\* (S, N), frames of equal metric value are listed in original index order,
\* lower index first; stated for a sort that leaves equal keys in index order.
C22_TiesByOriginalIndex ==
    (AstromDone /\ sortTies = "stable") =>
        LET d == median_dval(fitslist, HAVEBINPHOT)
        IN  /\ TiesByIndex(median_dval_ind(fitslist, HAVEBINPHOT, ntop, sortTies),
                           [k \in 1..Len(d) |-> fabs(d[k])])
            /\ TiesByIndex(median_background_ind(fitslist, HAVEBINPHOT, ntop, sortTies),
                           median_background(fitslist, HAVEBINPHOT))
            /\ TiesByIndex(median_sval_ind(fitslist, HAVEBINPHOT, ntop, sortTies),
                           median_sval(fitslist, HAVEBINPHOT))
            /\ TiesByIndex(good_detections_ind(fitslist, HAVEBINPHOT, ntop, sortTies),
                           good_detections(fitslist, HAVEBINPHOT))

----------------------------------------------------------------------------
(* The order of the stages, frame by frame *)

\* the artifact of a frame that a stage's worker consumes: the output of the
\* stage before it
Upstream(kind) ==
    CASE kind = "xysdk"       -> "raw"
      [] kind = "shift"       -> "raw"
      [] kind = "transform"   -> "itrans"
      [] kind = "photrefconv" -> "xtrns"
      [] kind = "subconv"     -> "xtrns"
      [] kind = "epd"         -> "raw"

\* a worker takes up a task only when the artifact its stage consumes exists
\* for the frame
ProcessedInOrder ==
    \A t \in 1..Len(tasks) :
        (t \in DOMAIN taskst /\ t \in DOMAIN taskst'
            /\ taskst[t] = "queued" /\ taskst'[t] = "running")
        => exists(disk[tasks[t]], Upstream(call.kind))

\* no frame loses an artifact it has
NeverMovesBack ==
    \A f \in 1..Len(disk) : disk[f] \subseteq disk'[f]

\* a frame gains only the output of the running stage, and only when the
\* artifact the stage consumes exists for it
AdvancesFromUpstream ==
    \A f \in 1..Len(disk) :
        \A a \in disk'[f] \ disk[f] :
            a = OutFile(call.kind) /\ exists(disk[f], Upstream(call.kind))

\* C23: a frame moves through the stages only forward and in order: no stage
\* takes up a frame that lacks the artifact of the stage before, a frame
\* never falls back to an earlier state, and it gains a stage's output only
\* when its upstream artifact exists.
C23_FramesAdvanceInOrder ==
    [][ProcessedInOrder /\ NeverMovesBack /\ AdvancesFromUpstream]_vars

----------------------------------------------------------------------------
(* SpecPaths: convolve_photref_frames on a list of frames its caller       *)
(* passes, with or without a common output directory.  disk is the set of  *)
(* output files that exist.                                                *)

\* most frames in photreflist
MaxPhotrefList == 2

\* the frames a caller can name: a directory and a base name
InputPaths == [dir : {"night1", "night2"}, base : {"a-xtrns.fits", "b-xtrns.fits"}]

\* the lists of distinct frames a caller can pass
PhotrefLists ==
    {l \in UNION {[1..n -> InputPaths] : n \in 1..MaxPhotrefList} :
        \A i \in 1..Len(l), j \in 1..Len(l) : l[i] = l[j] => i = j}

\* lines 1143-1151: the output path of a task: 'PHOTREF-' + basename, in the
\* frame's own directory or in outdir when one is given
photref_outfile(task) ==
    [dir    |-> IF task.outdir = None THEN task.frametoconvolve.dir ELSE task.outdir,
     prefix |-> "PHOTREF-",
     base   |-> task.frametoconvolve.base]

InitPaths ==
    /\ SelIdle
    /\ disk = {}
    /\ call = NoCall
    /\ tasks = <<>>
    /\ taskst = <<>>
    /\ results = <<>>
    /\ workers = <<>>
    /\ retval = NoValue
    /\ ncalls = 0

\* lines 1193-1198: one task per frame of photreflist, then the pool
ConvolvePhotrefCall ==
    /\ call.status = "idle"
    /\ \E photreflist \in PhotrefLists, outdir \in {None, "out"}, nw \in 1..MaxWorkers :
        /\ call' = [status |-> "mapping", kind |-> "photrefconv", transdir |-> FALSE,
                    nworkers |-> nw, maxworkertasks |-> DefaultMaxWorkerTasks]
        /\ tasks' = [k \in 1..Len(photreflist) |->
                        [frametoconvolve |-> photreflist[k], outdir |-> outdir]]
        /\ taskst' = [k \in 1..Len(photreflist) |-> "queued"]
        /\ results' = [k \in 1..Len(photreflist) |-> NoResult]
        /\ workers' = [w \in 1..nw |-> IdleWorker]
    /\ ncalls' = ncalls + 1
    /\ UNCHANGED <<disk, retval>>
    /\ UNCHANGED selvars

\* an idle process takes the next queued task: the command starts to write
\* the task's output file
ConvolveStart ==
    /\ call.status = "mapping"
    /\ \E w \in 1..Len(workers), t \in 1..Len(tasks) :
        /\ workers[w].task = 0
        /\ taskst[t] = "queued"
        /\ \A u \in 1..(t - 1) : taskst[u] # "queued"
        /\ taskst' = [taskst EXCEPT ![t] = "running"]
        /\ workers' = [workers EXCEPT ![w].task = t]
    /\ UNCHANGED <<disk, call, tasks, results, retval, ncalls>>
    /\ UNCHANGED selvars

\* lines 1162-1175: the command exits; on status zero the output is there, on
\* any other status the output is removed if it exists
ConvolveFinish ==
    /\ call.status = "mapping"
    /\ \E w \in 1..Len(workers), rc \in {0, 1} :
        /\ workers[w].task # 0
        /\ LET t   == workers[w].task
               out == photref_outfile(tasks[t])
           IN  /\ disk' = IF rc = 0 THEN disk \cup {out} ELSE disk \ {out}
               /\ results' = [results EXCEPT
                                ![t] = Returned(t, IF rc = 0 THEN "out" ELSE None, rc)]
               /\ taskst' = [taskst EXCEPT ![t] = "done"]
               /\ workers' = [workers EXCEPT ![w] =
                                [task |-> 0, ndone |-> workers[w].ndone + 1]]
    /\ UNCHANGED <<call, tasks, retval, ncalls>>
    /\ UNCHANGED selvars

\* lines 1203-1208: pool.map has every result; the dict is returned
ConvolveReturn ==
    /\ call.status = "mapping"
    /\ map_ready(taskst)
    /\ call' = [call EXCEPT !.status = "returned"]
    /\ retval' = stage_return("photrefconv", results)
    /\ workers' = <<>>
    /\ UNCHANGED <<disk, tasks, taskst, results, ncalls>>
    /\ UNCHANGED selvars

NextPaths == ConvolvePhotrefCall \/ ConvolveStart \/ ConvolveFinish \/ ConvolveReturn

SpecPaths == InitPaths /\ [][NextPaths]_vars

\* C24: no two distinct tasks of a stage run that are running at the same
\* time write the same output path.
C24_DistinctOutputPaths ==
    \A t \in 1..Len(tasks), u \in 1..Len(tasks) :
        (t # u /\ taskst[t] = "running" /\ taskst[u] = "running")
        => photref_outfile(tasks[t]) # photref_outfile(tasks[u])

----------------------------------------------------------------------------
(* Alignment of the metric arrays with the frame list *)

\* C25: after quota-pick has collected its metrics, position i of the metric
\* arrays belongs to the frame at position i of the frame list that selected
\* indices are turned into frames with (infodict['frames']), whatever frames
\* were kept or skipped by the collection loop.
C25_MetricsAlignedWithFrames ==
    PhotDone => pkl.frames = measured(fitslist, HAVEBINPHOT)

----------------------------------------------------------------------------
(* The failure outcome of the cascade *)

\* C26: when the gated pool has been formed and holds at least 2*minframes
\* frames (minframes >= 1), quota-pick succeeds with exactly minframes frames;
\* the cascade never reports 'not enough frames'.
C26_CascadeNeverFails ==
    (PhotDone /\ photrefs.level # "raised" /\ minframes >= 1
        /\ Len(GatedRows) >= 2 * minframes) =>
        /\ photrefs.ok
        /\ photrefs.level \in {"best", "ndet-bkg", "err-mad", "bkg"}
        /\ Len(photrefs.frames) = minframes

\* a run over a large enough gated pool in which all three intersections were
\* below the quota and the background ranking alone met it
C26_Witness ==
    /\ PhotDone
    /\ Len(GatedRows) >= 2 * minframes
    /\ photrefs.level = "bkg"
    /\ \A L \in {CascadeLevels(GatedRows)} :
            \A k \in 1..3 : Len(L[k].cand) < minframes

----------------------------------------------------------------------------
(* SpecCombined: photometry_on_combined_photref, called with or without    *)
(* gain, exposure time and zeropoint, on a frame whose header has or lacks *)
(* the keywords.  disk is the set of files of the frame that exist.        *)

\* Python's None where a number is expected; also a keyword the header lacks
NoneNum == -1

\* the truth value Python gives a number or None in 'if not x'
truthy(x) == x # NoneNum /\ x # 0

\* the values an argument or a header keyword can have
NumValues == {NoneNum, 0, 2}

\* the header keywords the function reads (GAIN1 and GAIN2 as one entry:
\* their mean), each a value or absent
Headers == [GAIN12 : NumValues, GAIN : NumValues, EXPTIME : NumValues]

\* lines 1283-1300 and 1323-1351: the gain and exposure time the function
\* settles on, whether the command was run, the files afterwards and the
\* value returned.  frameinfo says whether FRAMEREGEX matches the source
\* list's name, which supplies the zeropoint when none is passed.
photometry_on_combined_photref(files, ccdgain, zeropoint, ccdexptime, header, frameinfo, rc, wrote) ==
    LET gain == IF truthy(ccdgain) THEN ccdgain
                ELSE IF header.GAIN12 # NoneNum THEN header.GAIN12
                ELSE IF header.GAIN # NoneNum THEN header.GAIN
                ELSE NoneNum
        exptime == IF truthy(ccdexptime) THEN ccdexptime ELSE header.EXPTIME
        idle == [files |-> files, ran |-> FALSE, ccdgain |-> gain,
                 ccdexptime |-> exptime, result |-> ReturnedNone(-1)]
    IN  IF ~(truthy(gain) \/ truthy(exptime)) THEN idle
        ELSE IF ~truthy(zeropoint) /\ ~frameinfo THEN idle
        ELSE [files |-> IF rc = 0 THEN ran(files, "cmrawphot", wrote)
                        ELSE ran(files, "cmrawphot", wrote) \ {"cmrawphot"},
              ran |-> TRUE, ccdgain |-> gain, ccdexptime |-> exptime,
              result |-> Returned(1, IF rc = 0 THEN "out" ELSE None, rc)]

InitCombined ==
    /\ SelIdle
    /\ disk \in {{}, {"cmrawphot"}}
    /\ call = NoCall
    /\ tasks = <<>>
    /\ taskst = <<>>
    /\ results = <<>>
    /\ workers = <<>>
    /\ retval = NoValue
    /\ ncalls = 0

\* one call of the function, from its first line to its return
CombinedPhotCall ==
    /\ call.status = "idle"
    /\ \E ccdgain \in NumValues, zeropoint \in NumValues, ccdexptime \in NumValues,
          header \in Headers, frameinfo \in BOOLEAN, rc \in {0, 1}, wrote \in BOOLEAN :
        LET r == photometry_on_combined_photref(disk, ccdgain, zeropoint, ccdexptime,
                                                header, frameinfo, rc, wrote)
        IN  /\ call' = [status |-> "returned", kind |-> "cmrawphot",
                        args |-> <<ccdgain, zeropoint, ccdexptime>>,
                        header |-> header, ran |-> r.ran,
                        ccdgain |-> r.ccdgain, ccdexptime |-> r.ccdexptime,
                        before |-> disk]
            /\ disk' = r.files
            /\ retval' = r.result
    /\ ncalls' = ncalls + 1
    /\ UNCHANGED <<tasks, taskst, results, workers>>
    /\ UNCHANGED selvars

NextCombined == CombinedPhotCall

SpecCombined == InitCombined /\ [][NextCombined]_vars

\* C27: the photometry command is run only when both the gain and the
\* exposure time are defined (passed in or found in the header); when either
\* is undefined the function returns without running it and the output file
\* is neither created nor removed.
C27_RunsOnlyWithGainAndExptime ==
    call.status = "returned" =>
        /\ call.ran => (call.ccdgain # NoneNum /\ call.ccdexptime # NoneNum)
        /\ (call.ccdgain = NoneNum \/ call.ccdexptime = NoneNum) =>
               (~call.ran /\ disk = call.before)

----------------------------------------------------------------------------
(* SpecTempSort: the step of convert_grcollect_to_fits_lc_worker that puts *)
(* the CCD temperature table in the order of the light curve.  call holds  *)
(* the light curve's frame keys after the time sort (rstfc), the frame     *)
(* keys of the temperature table (framekey) and the reordered keys.        *)

\* most distinct frame keys
MaxFrameKeys == 3

\* the orderings of the set S of frame keys
Orderings(S) ==
    {q \in [1..Cardinality(S) -> S] : \A i, j \in 1..Cardinality(S) : q[i] = q[j] => i = j}

\* lcutils.py lines 190-194: the rows of the temperature table whose frame
\* key is in the light curve, in table order
tdfframekeys(framekey, rstfc) ==
    take(framekey, maskind([i \in 1..Len(framekey) |-> framekey[i] \in Range(rstfc)]))

\* lcutils.py line 206: tdfframekeys.argsort()[lcd['rstfc'].argsort()]
matchsortinds(keys, rstfc) == take(argsort(keys, "stable"), argsort(rstfc, "stable"))

InitTempSort ==
    /\ SelIdle
    /\ disk = <<>>
    /\ \E S \in SUBSET (1..MaxFrameKeys), T \in SUBSET (1..MaxFrameKeys) :
        /\ S # {}
        /\ S \subseteq T
        /\ \E a \in Orderings(S), t \in Orderings(T) :
            call = [status |-> "idle", kind |-> "convert", rstfc |-> a,
                    framekey |-> t, tdfframekeys |-> <<>>]
    /\ tasks = <<>>
    /\ taskst = <<>>
    /\ results = <<>>
    /\ workers = <<>>
    /\ retval = NoValue
    /\ ncalls = 0

\* lcutils.py lines 186-214: filter, reorder and assert; a failed
\* np.testing.assert_array_equal raises AssertionError
TempSort ==
    /\ call.status = "idle"
    /\ LET keys == tdfframekeys(call.framekey, call.rstfc)
           sorted == take(keys, matchsortinds(keys, call.rstfc))
       IN  call' = [call EXCEPT !.tdfframekeys = sorted,
                                !.status = IF sorted = call.rstfc
                                           THEN "returned" ELSE "raised"]
    /\ ncalls' = ncalls + 1
    /\ UNCHANGED <<disk, tasks, taskst, results, workers, retval>>
    /\ UNCHANGED selvars

NextTempSort == TempSort

SpecTempSort == InitTempSort /\ [][NextTempSort]_vars

\* C28: after the double-argsort reorder the temperature table's frame keys
\* equal the light curve's frame keys position by position, so the assertion
\* passes, for every ordering of the keys on either side.
C28_TemperatureMatchesLightcurve ==
    call.status # "idle" =>
        /\ call.status = "returned"
        /\ call.tdfframekeys = call.rstfc

----------------------------------------------------------------------------
(* SpecEPD: epd_fitslightcurve_imagesub run any number of times on a       *)
(* converted light curve, in place or into a second file.  disk holds the  *)
(* two files, call the arguments of the last run and the outcome of each   *)
(* aperture's fit, retval what the run returned.                           *)

\* most rows of the light curve
MaxNdet == 2

\* the instrumental-magnitude columns of the light curve
irm_ap_keys == <<"IRM1", "IRM2">>

\* a FITS light curve: its DTR_EPD flag, how many sets of EPD columns its
\* table holds, its number of rows and how many rows are finite in every
\* column
LcFile(flag, nepd, ndet, nfinite) ==
    [exists |-> TRUE, DTR_EPD |-> flag, nepd |-> nepd, ndet |-> ndet, nfinite |-> nfinite]

NoFile == [exists |-> FALSE, DTR_EPD |-> FALSE, nepd |-> 0, ndet |-> 0, nfinite |-> 0]

\* what each aperture's call of ism.epd_magseries_imagesub does: it returns a
\* fit or raises.  A return that is not a pair fails to unpack at line 443
\* inside the try and counts with the exceptions.
FitOutcomes == [1..Len(irm_ap_keys) -> {"ok", "raise"}]

\* lines 537-541: the file written: the input's header with DTR_EPD set and
\* the input's table with one more set of EPD columns
epd_written(infile) == [infile EXCEPT !.DTR_EPD = TRUE, !.nepd = infile.nepd + 1]

\* epd_fitslightcurve_imagesub without the DTR_EPD test of lines 391-394
epd_fitslightcurve_imagesub_norecheck(files, fitsilcfile, outfile, minndet, observatory, fits) ==
    LET infile == files[fitsilcfile]
        target == IF outfile = None THEN fitsilcfile ELSE outfile
    IN  IF infile.ndet < minndet THEN [files |-> files, ret |-> "None"]
        ELSE IF observatory = "hatpi" THEN [files |-> files, ret |-> "raised"]
        ELSE IF infile.nfinite = 0 THEN [files |-> files, ret |-> "None, None"]
        ELSE IF \E k \in 1..Len(irm_ap_keys) : fits[k] = "raise"
        THEN [files |-> files, ret |-> "42"]
        ELSE [files |-> [files EXCEPT ![target] = epd_written(infile)], ret |-> "1"]

\* epd_fitslightcurve_imagesub writing the apertures that were fitted when
\* the fit of another one fails
epd_fitslightcurve_imagesub_partial(files, fitsilcfile, outfile, minndet, observatory, fits) ==
    LET infile == files[fitsilcfile]
        target == IF outfile = None THEN fitsilcfile ELSE outfile
    IN  IF infile.DTR_EPD THEN [files |-> files, ret |-> "0"]
        ELSE IF infile.ndet < minndet THEN [files |-> files, ret |-> "None"]
        ELSE IF observatory = "hatpi" THEN [files |-> files, ret |-> "raised"]
        ELSE IF infile.nfinite = 0 THEN [files |-> files, ret |-> "None, None"]
        ELSE IF \A k \in 1..Len(irm_ap_keys) : fits[k] = "raise"
        THEN [files |-> files, ret |-> "42"]
        ELSE [files |-> [files EXCEPT ![target] = epd_written(infile)], ret |-> "1"]

\* lcutils.py lines 366-557.  In order: the flag test (391-394, return 0);
\* the row count (396-399, return None); for 'hatpi' a raising fit leaves the
\* function and a returning one leaves epddetails empty, so line 531 raises
\* KeyError before the write; for 'tess' no finite row returns (None, None)
\* (line 460), a raising fit is caught and its key is missing at line 470
\* (return 42); otherwise the file is written to outfile, or over the input
\* when no outfile is given (483-541), and 1 is returned.
epd_fitslightcurve_imagesub(files, fitsilcfile, outfile, minndet, observatory, fits) ==
    LET infile == files[fitsilcfile]
        target == IF outfile = None THEN fitsilcfile ELSE outfile
    IN  IF infile.DTR_EPD THEN [files |-> files, ret |-> "0"]
        ELSE IF infile.ndet < minndet THEN [files |-> files, ret |-> "None"]
        ELSE IF observatory = "hatpi" THEN [files |-> files, ret |-> "raised"]
        ELSE IF infile.nfinite = 0 THEN [files |-> files, ret |-> "None, None"]
        ELSE IF \E k \in 1..Len(irm_ap_keys) : fits[k] = "raise"
        THEN [files |-> files, ret |-> "42"]
        ELSE [files |-> [files EXCEPT ![target] = epd_written(infile)], ret |-> "1"]

\* the light curve as convert_grcollect_to_fits_lc_worker leaves it
\* (DTR_EPD False, lines 250-251) and no second file
InitEPD ==
    /\ SelIdle
    /\ \E ndet \in 0..MaxNdet, nfinite \in 0..MaxNdet :
        /\ nfinite <= ndet
        /\ disk = [lc |-> LcFile(FALSE, 0, ndet, nfinite), out |-> NoFile]
    /\ call = NoCall
    /\ tasks = <<>>
    /\ taskst = <<>>
    /\ results = <<>>
    /\ workers = <<>>
    /\ retval = NoValue
    /\ ncalls = 0

\* one run of epd_fitslightcurve_imagesub on a file that exists
RunEPD ==
    /\ \E fitsilcfile \in {"lc", "out"}, outfile \in {None, "out"},
          minndet \in 1..MaxNdet, observatory \in {"tess", "hatpi"},
          fits \in FitOutcomes :
        /\ disk[fitsilcfile].exists
        /\ LET r == epd_fitslightcurve_imagesub(disk, fitsilcfile, outfile, minndet,
                                                observatory, fits)
           IN  /\ disk' = r.files
               /\ retval' = [type |-> r.ret, dict |-> <<>>, set |-> {}]
        /\ call' = [status |-> "returned", kind |-> "epdrun",
                    fitsilcfile |-> fitsilcfile, outfile |-> outfile,
                    minndet |-> minndet, observatory |-> observatory, fits |-> fits]
    /\ UNCHANGED <<tasks, taskst, results, workers, ncalls>>
    /\ UNCHANGED selvars

NextEPD == RunEPD

SpecEPD == InitEPD /\ [][NextEPD]_vars

\* C29: a run on a light curve whose DTR_EPD flag is already true returns 0
\* and writes nothing, so a second in-place run leaves the file as the first
\* one made it, and no file ever holds more than one set of EPD columns.
C29_FlaggedFileUntouched ==
    [][/\ disk[call'.fitsilcfile].DTR_EPD => (disk' = disk /\ retval'.type = "0")
       /\ \A f \in {"lc", "out"} : disk'[f].nepd <= 1]_vars

\* an in-place run was made on the light curve after an in-place run had
\* completed on it, and was skipped
C29_Witness ==
    /\ call.status = "returned"
    /\ call.fitsilcfile = "lc"
    /\ call.outfile = None
    /\ retval.type = "0"
    /\ disk.lc.DTR_EPD
    /\ disk.lc.nepd = 1

\* C30: a run that cannot complete EPD (fewer than minndet rows, no finite
\* row, or a fit that fails for some aperture) writes nothing: no file is
\* created or overwritten and the flag of the input stays as it was.
C30_FailedEPDWritesNothing ==
    [][(\/ disk[call'.fitsilcfile].ndet < call'.minndet
        \/ disk[call'.fitsilcfile].nfinite = 0
        \/ \E k \in 1..Len(irm_ap_keys) : call'.fits[k] = "raise")
       => (disk' = disk /\ retval'.type # "1")]_vars

\* a run on an unflagged light curve with enough finite rows in which the
\* first aperture was fitted and the second failed; no output file exists
C30_Witness ==
    /\ call.status = "returned"
    /\ call.observatory = "tess"
    /\ call.fits = <<"ok", "raise">>
    /\ call.outfile = "out"
    /\ retval.type = "42"
    /\ ~disk[call.fitsilcfile].DTR_EPD
    /\ disk[call.fitsilcfile].ndet >= call.minndet
    /\ disk[call.fitsilcfile].nfinite > 0
    /\ ~disk.out.exists

====
